---- MODULE Spec2Model ----
(***************************************************************************)
(* Model of bot.py: the token loading at import time, main(), the four     *)
(* registered handlers and the per-user preference mapping user_data.      *)
(*                                                                         *)
(* Strings the code inspects (message text, callback data, language codes) *)
(* are tuples of characters; an emoji is one element written "[name]".     *)
(* Fixed display texts the code only passes on are opaque strings.         *)
(***************************************************************************)
EXTENDS Integers, Sequences, FiniteSets, TLC

\* ---------------------------------------------------------------- bounds
NumUsers == 2
Users == 1..NumUsers
\* how many buttons of the language keyboard, from its first, get pressed
NumPressed == 3

\* ------------------------------------------------------- Python helpers
None == "None"

\* truthiness of an Optional[str]: None and '' are falsy
MutTruthy(v) == v # None
Truthy(v) == v # None /\ v # ""

\* d[k] = v on a dict
MutPutShared(d, k, v) == [x \in (DOMAIN d) \cup {k} |-> v]
Put(d, k, v) == [x \in (DOMAIN d) \cup {k} |-> IF x = k THEN v ELSE d[x]]

\* str.startswith / re.match('^prefix', s)
StartsWith(s, p) == Len(s) >= Len(p) /\ SubSeq(s, 1, Len(p)) = p

\* str.split(sep): every occurrence of sep cuts, empty segments are kept
RECURSIVE split(_, _)
split(s, sep) ==
    IF \A i \in 1..Len(s) : s[i] # sep
    THEN <<s>>
    ELSE LET i == CHOOSE k \in 1..Len(s) :
                      s[k] = sep /\ \A j \in 1..(k - 1) : s[j] # sep
         IN  <<SubSeq(s, 1, i - 1)>> \o split(SubSeq(s, i + 1, Len(s)), sep)

\* ------------------------------------------------------------ constants
c_uz == <<"u", "z">>
c_en == <<"e", "n">>
c_ru == <<"r", "u">>
c_tr == <<"t", "r">>
c_ar == <<"a", "r">>
c_es == <<"e", "s">>

\* LANGUAGES, in insertion order
LANGUAGES ==
    << [code |-> c_uz, label |-> "[uz] O'zbekcha"],
       [code |-> c_en, label |-> "[gb] English"],
       [code |-> c_ru, label |-> "[ru] Russkiy"],
       [code |-> c_tr, label |-> "[tr] Turkce"],
       [code |-> c_ar, label |-> "[sa] Arabiya"],
       [code |-> c_es, label |-> "[es] Espanol"] >>

CatalogCodes == {LANGUAGES[i].code : i \in 1..Len(LANGUAGES)}

\* LANGUAGES.get(code, default)
LANGUAGES_get(code, default) ==
    IF code \in CatalogCodes
    THEN LET i == CHOOSE k \in 1..Len(LANGUAGES) : LANGUAGES[k].code = code
         IN  LANGUAGES[i].label
    ELSE default

lang_prefix == <<"l", "a", "n", "g", "_">>

\* the three menu labels of get_main_keyboard / handle_message
L_Tarjima == <<"[globe]", " ", "T", "a", "r", "j", "i", "m", "a">>
L_Sozlamalar ==
    <<"[gear]", " ", "S", "o", "z", "l", "a", "m", "a", "l", "a", "r">>
L_Yordam == <<"[info]", " ", "Y", "o", "r", "d", "a", "m">>

\* the record every lazy create stores
MutDefaultRecord == [target_language |-> c_uz, mode |-> "translate"]
DefaultRecord == [target_language |-> c_en, mode |-> "translate"]

\* ------------------------------------------------------------ keyboards
get_main_keyboard ==
    [kind |-> "ReplyKeyboardMarkup",
     rows |-> << <<L_Tarjima, L_Sozlamalar>>, <<L_Yordam>> >>]

InlineKeyboardButton(text, callback_data) ==
    [text |-> text, callback_data |-> callback_data]

\* the button of one item of LANGUAGES.items()
LanguageButton(item) ==
    InlineKeyboardButton(item.label, lang_prefix \o item.code)

\* for i in range(0, len(langs), 2): a row of langs[i] and, if any, langs[i+1]
MutRowsRepeatFirst(langs) ==
    [r \in 1..((Len(langs) + 1) \div 2) |->
        IF 2 * r <= Len(langs)
        THEN <<LanguageButton(langs[2 * r - 1]),
               LanguageButton(langs[2 * r - 1])>>
        ELSE <<LanguageButton(langs[2 * r - 1])>>]
LanguageRows(langs) ==
    [r \in 1..((Len(langs) + 1) \div 2) |->
        IF 2 * r <= Len(langs)
        THEN <<LanguageButton(langs[2 * r - 1]),
               LanguageButton(langs[2 * r])>>
        ELSE <<LanguageButton(langs[2 * r - 1])>>]

get_language_keyboard ==
    [kind |-> "InlineKeyboardMarkup", rows |-> LanguageRows(LANGUAGES)]

\* ---------------------------------------------------------- fixed texts
welcome_text == <<"Assalomu aleykum! Men tarjimon botman!">>
help_text == <<"Qo'llanma:">>
settings_text == <<"Tarjima tilini tanlang:">>
prompt_text == <<"Matn yuboring, tarjima qilaman!">>
failure_text == <<"Tarjima xatoligi. Qaytadan urinib ko'ring.">>
\* f"Tarjima:\n\n{translated}"
TranslationReply(translated) == <<"Tarjima:", translated>>
\* f"Til o'rnatildi: {lang_name}\n\nMatn yuboring!"
Confirmation(lang_name) == <<"Til o'rnatildi:", lang_name, "Matn yuboring!">>

\* -------------------------------------------------------------- effects
\* what a handler does to its collaborators, in program order
NoMarkup == [kind |-> "None", rows |-> <<>>]
Reply(text, markup) ==
    [op |-> "reply_text", text |-> text, reply_markup |-> markup]
Edit(text) ==
    [op |-> "edit_message_text", text |-> text, reply_markup |-> NoMarkup]
Answer == [op |-> "answer", text |-> <<>>, reply_markup |-> NoMarkup]
LogError ==
    [op |-> "logger.error", text |-> <<>>, reply_markup |-> NoMarkup]
Translate(source, target, text) ==
    [op |-> "GoogleTranslator", text |-> text, reply_markup |-> NoMarkup,
     source |-> source, target |-> target]

\* query.answer() / query.edit_message_text() raising (a transport error)
AnswerRaises ==
    [op |-> "answer.raise", text |-> <<>>, reply_markup |-> NoMarkup]
EditRaises(text) ==
    [op |-> "edit_message_text.raise", text |-> text,
     reply_markup |-> NoMarkup]

\* an access to user_data[user_id]: "user_data.create" (the lazy create),
\* "user_data.get" (the lookup of translate_text), "user_data.set" (the
\* assignment of the callback); present: the record exists at that point
Access(op, user_id, present) ==
    [op |-> op, text |-> <<>>, reply_markup |-> NoMarkup,
     user |-> user_id, present |-> present]

\* if user_id not in user_data: user_data[user_id] = {...}
LazyCreate(ud, user_id) ==
    IF user_id \notin DOMAIN ud
    THEN <<Access("user_data.create", user_id, FALSE)>>
    ELSE <<>>

\* the text the translation service returns: opaque, fixed by its inputs
Translated(target, text) == <<"translated", target, text>>

Result(ud, effects, raised) ==
    [user_data |-> ud, effects |-> effects, raised |-> raised]

\* the effects of the caller before an awaited handler's own
After(effects, res) == [res EXCEPT !.effects = effects \o @]

\* ------------------------------------------------------------- handlers
MutStartReset(ud, user_id) ==
    Result(Put(ud, user_id, DefaultRecord),
           <<Access("user_data.create", user_id, FALSE),
             Reply(welcome_text, get_main_keyboard)>>,
           FALSE)
MutStartClear(ud, user_id) ==
    LET rec == IF user_id \in DOMAIN ud THEN ud[user_id] ELSE DefaultRecord
    IN  Result([x \in {user_id} |-> rec],
               LazyCreate(ud, user_id)
                   \o <<Reply(welcome_text, get_main_keyboard)>>,
               FALSE)
start(ud, user_id) ==
    LET ud1 == IF user_id \notin DOMAIN ud
               THEN Put(ud, user_id, DefaultRecord)
               ELSE ud
    IN  Result(ud1,
               LazyCreate(ud, user_id)
                   \o <<Reply(welcome_text, get_main_keyboard)>>,
               FALSE)

\* dict.get(user_id, {}).get('target_language', 'en')
TargetLang(ud, user_id) ==
    IF user_id \in DOMAIN ud THEN ud[user_id].target_language ELSE c_en

\* outcome: what the try block does, "ok" or "error" (any Exception raised
\* by the import, the constructor or translate())
MutTranslateNoTry(ud, user_id, text, outcome) ==
    LET call == Translate("auto", TargetLang(ud, user_id), text)
        get == Access("user_data.get", user_id, user_id \in DOMAIN ud)
    IN  IF outcome = "ok"
        THEN Result(ud,
               <<get, call,
                 Reply(TranslationReply(Translated(call.target, text)),
                       NoMarkup)>>, FALSE)
        ELSE Result(ud, <<get, call>>, TRUE)
MutTranslateFixedTarget(ud, user_id, text, outcome) ==
    LET call == Translate("auto", c_en, text)
        get == Access("user_data.get", user_id, user_id \in DOMAIN ud)
    IN  IF outcome = "ok"
        THEN Result(ud,
               <<get, call,
                 Reply(TranslationReply(Translated(call.target, text)),
                       NoMarkup)>>, FALSE)
        ELSE Result(ud,
               <<get, call, LogError, Reply(failure_text, NoMarkup)>>,
               FALSE)
translate_text(ud, user_id, text, outcome) ==
    LET call == Translate("auto", TargetLang(ud, user_id), text)
        get == Access("user_data.get", user_id, user_id \in DOMAIN ud)
    IN  IF outcome = "ok"
        THEN Result(ud,
               <<get, call,
                 Reply(TranslationReply(Translated(call.target, text)),
                       NoMarkup)>>, FALSE)
        ELSE Result(ud,
               <<get, call, LogError, Reply(failure_text, NoMarkup)>>,
               FALSE)

settings(ud, user_id) ==
    Result(ud, <<Reply(settings_text, get_language_keyboard)>>,
           FALSE)

help_command(ud, user_id) ==
    Result(ud, <<Reply(help_text, NoMarkup)>>, FALSE)

\* data.split('_')[1]
MutLangCodeLast(data) == LET parts == split(data, "_") IN parts[Len(parts)]
LangCode(data) == split(data, "_")[2]

MutCallbackNoWrite(ud, user_id, data, net) ==
    LET lang_code == LangCode(data)
        ud1 == IF user_id \notin DOMAIN ud
               THEN Put(ud, user_id, DefaultRecord)
               ELSE ud
        ud2 == ud1
        set == <<>>
        text == Confirmation(LANGUAGES_get(lang_code, "Unknown"))
        edit == IF net = "edit_error" THEN EditRaises(text) ELSE Edit(text)
    IN  IF net = "answer_error"
        THEN Result(ud, <<AnswerRaises>>, TRUE)
        ELSE Result(ud2,
                    <<Answer>> \o LazyCreate(ud, user_id) \o set \o <<edit>>,
                    net = "edit_error")
MutCallbackToggle(ud, user_id, data, net) ==
    LET lang_code == LangCode(data)
        ud1 == IF user_id \notin DOMAIN ud
               THEN Put(ud, user_id, DefaultRecord)
               ELSE ud
        new == IF user_id \in DOMAIN ud
                  /\ ud[user_id].target_language = lang_code
               THEN c_en ELSE lang_code
        ud2 == Put(ud1, user_id,
                   [ud1[user_id] EXCEPT !.target_language = new])
        set == <<Access("user_data.set", user_id, user_id \in DOMAIN ud1)>>
        text == Confirmation(LANGUAGES_get(lang_code, "Unknown"))
        edit == IF net = "edit_error" THEN EditRaises(text) ELSE Edit(text)
    IN  IF net = "answer_error"
        THEN Result(ud, <<AnswerRaises>>, TRUE)
        ELSE Result(ud2,
                    <<Answer>> \o LazyCreate(ud, user_id) \o set \o <<edit>>,
                    net = "edit_error")
MutCallbackAnswerLate(ud, user_id, data, net) ==
    LET lang_code == LangCode(data)
        ud1 == IF user_id \notin DOMAIN ud
               THEN Put(ud, user_id, DefaultRecord)
               ELSE ud
        ud2 == Put(ud1, user_id,
                   [ud1[user_id] EXCEPT !.target_language = lang_code])
        set == <<Access("user_data.set", user_id, user_id \in DOMAIN ud1)>>
        text == Confirmation(LANGUAGES_get(lang_code, "Unknown"))
        edit == IF net = "edit_error" THEN EditRaises(text) ELSE Edit(text)
    IN  IF net = "answer_error"
        THEN Result(ud2,
                    LazyCreate(ud, user_id) \o set \o <<AnswerRaises>>, TRUE)
        ELSE Result(ud2,
                    LazyCreate(ud, user_id) \o set \o <<Answer, edit>>,
                    net = "edit_error")
\* net: what the transport does to the two calls of the handler, "ok",
\* "answer_error" (query.answer() raises) or "edit_error"
\* (query.edit_message_text() raises); the handler catches neither
language_callback(ud, user_id, data, net) ==
    LET lang_code == LangCode(data)
        ud1 == IF user_id \notin DOMAIN ud
               THEN Put(ud, user_id, DefaultRecord)
               ELSE ud
        ud2 == Put(ud1, user_id,
                   [ud1[user_id] EXCEPT !.target_language = lang_code])
        set == <<Access("user_data.set", user_id, user_id \in DOMAIN ud1)>>
        text == Confirmation(LANGUAGES_get(lang_code, "Unknown"))
        edit == IF net = "edit_error" THEN EditRaises(text) ELSE Edit(text)
    IN  IF net = "answer_error"
        THEN Result(ud, <<AnswerRaises>>, TRUE)
        ELSE Result(ud2,
                    <<Answer>> \o LazyCreate(ud, user_id) \o set \o <<edit>>,
                    net = "edit_error")

MutHandleAlwaysReset(ud, user_id, text, outcome) ==
    LET ud1 == Put(ud, user_id, DefaultRecord)
        lazy == <<Access("user_data.create", user_id, FALSE)>>
    IN  After(lazy,
            IF text = L_Tarjima
            THEN Result(ud1, <<Reply(prompt_text, NoMarkup)>>, FALSE)
            ELSE IF text = L_Sozlamalar THEN settings(ud1, user_id)
            ELSE IF text = L_Yordam THEN help_command(ud1, user_id)
            ELSE translate_text(ud1, user_id, text, outcome))
MutHandleNoCreate(ud, user_id, text, outcome) ==
    LET ud1 == ud
        lazy == <<>>
    IN  After(lazy,
            IF text = L_Tarjima
            THEN Result(ud1, <<Reply(prompt_text, NoMarkup)>>, FALSE)
            ELSE IF text = L_Sozlamalar THEN settings(ud1, user_id)
            ELSE IF text = L_Yordam THEN help_command(ud1, user_id)
            ELSE translate_text(ud1, user_id, text, outcome))
MutHandleNoMenu(ud, user_id, text, outcome) ==
    LET ud1 == IF user_id \notin DOMAIN ud
               THEN Put(ud, user_id, DefaultRecord)
               ELSE ud
        lazy == LazyCreate(ud, user_id)
    IN  After(lazy,
            IF text = L_Sozlamalar THEN settings(ud1, user_id)
            ELSE IF text = L_Yordam THEN help_command(ud1, user_id)
            ELSE translate_text(ud1, user_id, text, outcome))
handle_message(ud, user_id, text, outcome) ==
    LET ud1 == IF user_id \notin DOMAIN ud
               THEN Put(ud, user_id, DefaultRecord)
               ELSE ud
        lazy == LazyCreate(ud, user_id)
    IN  After(lazy,
            IF text = L_Tarjima
            THEN Result(ud1, <<Reply(prompt_text, NoMarkup)>>, FALSE)
            ELSE IF text = L_Sozlamalar THEN settings(ud1, user_id)
            ELSE IF text = L_Yordam THEN help_command(ud1, user_id)
            ELSE translate_text(ud1, user_id, text, outcome))

\* ------------------------------------------------------------- dispatch
s_start == <<"s", "t", "a", "r", "t">>
s_help == <<"h", "e", "l", "p">>

\* the handlers main() adds, in the order it adds them
RegisteredHandlers ==
    << [type |-> "CommandHandler", arg |-> s_start, callback |-> "start"],
       [type |-> "CommandHandler", arg |-> s_help,
        callback |-> "help_command"],
       [type |-> "MessageHandler", arg |-> <<"TEXT", "~COMMAND">>,
        callback |-> "handle_message"],
       [type |-> "CallbackQueryHandler", arg |-> lang_prefix,
        callback |-> "language_callback"] >>

Message(u, text) ==
    [kind |-> "message", user |-> u, text |-> text, data |-> <<>>]
CallbackQuery(u, data) ==
    [kind |-> "callback_query", user |-> u, text |-> <<>>, data |-> data]
NoUpdate == [kind |-> "none", user |-> 0, text |-> <<>>, data |-> <<>>]

\* filters.COMMAND: the text starts with a bot command ("/" and a name)
IsCommand(text) == Len(text) >= 2 /\ text[1] = "/" /\ text[2] # " "
\* the name of the command a text starts with
CommandName(text) == LET w == split(text, " ")[1] IN SubSeq(w, 2, Len(w))

\* Handler.check_update
CheckUpdate(h, upd) ==
    CASE h.type = "CommandHandler" ->
            /\ upd.kind = "message"
            /\ IsCommand(upd.text)
            /\ CommandName(upd.text) = h.arg
      [] h.type = "MessageHandler" ->
            /\ upd.kind = "message"
            /\ Len(upd.text) > 0
            /\ ("~COMMAND" \in {h.arg[i] : i \in 1..Len(h.arg)}
                    => ~IsCommand(upd.text))
      [] h.type = "CallbackQueryHandler" ->
            /\ upd.kind = "callback_query"
            /\ StartsWith(upd.data, h.arg)
      [] OTHER -> FALSE

\* Application.process_update: the first handler that accepts the update
Dispatch(hs, upd) ==
    IF \E i \in 1..Len(hs) : CheckUpdate(hs[i], upd)
    THEN LET i == CHOOSE k \in 1..Len(hs) :
                      /\ CheckUpdate(hs[k], upd)
                      /\ \A j \in 1..(k - 1) : ~CheckUpdate(hs[j], upd)
         IN  hs[i].callback
    ELSE "none"

\* ---------------------------------------------------------------- input
TOKEN_VAR == "TELEGRAM_BOT_TOKEN"
EmptyEnv == [n \in {} |-> ""]
Envs ==
    { EmptyEnv,
      [n \in {"OPENAI_API_KEY"} |-> "sk-1"],
      [n \in {TOKEN_VAR} |-> ""],
      [n \in {TOKEN_VAR} |-> "123:abc"] }

t_Hello == <<"H", "e", "l", "l", "o">>
t_tarjima_lower == <<"[globe]", " ", "t", "a", "r", "j", "i", "m", "a">>
t_Yordam_space == L_Yordam \o <<" ">>
t_cmd_start == <<"/">> \o s_start
t_cmd_help == <<"/">> \o s_help
t_cmd_foo == <<"/", "f", "o", "o">>

Texts ==
    { L_Tarjima, L_Sozlamalar, L_Yordam, t_Hello, t_tarjima_lower,
      t_Yordam_space, t_cmd_start, t_cmd_help, t_cmd_foo }

d_empty_code == lang_prefix
d_zh_CN == lang_prefix \o <<"z", "h", "_", "C", "N">>
d_other == <<"m", "o", "d", "e", "_", "a", "i">>

\* the tokens of the pressed buttons of get_language_keyboard
PressedData ==
    {lang_prefix \o LANGUAGES[i].code : i \in 1..Len(LANGUAGES)
                                                \cap 1..NumPressed}

CallbackData == PressedData \cup {d_empty_code, d_zh_CN, d_other}

Outcomes == {"ok", "error"}

Transport == {"ok", "answer_error", "edit_error"}

\* ---------------------------------------------------------------- state
VARIABLES env, TELEGRAM_TOKEN, phase, exit_code, handlers, user_data, last,
          chosen

vars ==
    <<env, TELEGRAM_TOKEN, phase, exit_code, handlers, user_data, last,
      chosen>>

\* chosen[u]: the token of the latest callback of u that the language
\* callback handler acknowledged, NoToken before the first one
NoToken == <<>>

NoExit == -1

NoLast ==
    [update |-> NoUpdate, handler |-> "none", had_record |-> FALSE,
     outcome |-> "none", repeat |-> FALSE, effects |-> <<>>,
     raised |-> FALSE]

Init ==
    /\ env \in Envs
    /\ TELEGRAM_TOKEN = None
    /\ phase = "import"
    /\ exit_code = NoExit
    /\ handlers = <<>>
    /\ user_data = [u \in {} |-> DefaultRecord]
    /\ last = NoLast
    /\ chosen = [u \in Users |-> NoToken]

\* os.environ[...] guarded by "in", os.environ.get(...), os.getenv(...)
GetEnv(e, name) == IF name \in DOMAIN e THEN e[name] ELSE None

\* lines 29-46: the three lookups, each tried while the token is still falsy
LoadedToken(e) ==
    LET m1 == IF TOKEN_VAR \in DOMAIN e THEN e[TOKEN_VAR] ELSE None
        m2 == IF ~Truthy(m1) THEN GetEnv(e, TOKEN_VAR) ELSE m1
        m3 == IF ~Truthy(m2) THEN GetEnv(e, TOKEN_VAR) ELSE m2
    IN  m3

\* module level code up to the final check: sys.exit(1) on a falsy token
LoadToken ==
    /\ phase = "import"
    /\ TELEGRAM_TOKEN' = LoadedToken(env)
    /\ IF ~Truthy(LoadedToken(env))
       THEN phase' = "exited" /\ exit_code' = 1
       ELSE phase' = "imported" /\ exit_code' = exit_code
    /\ UNCHANGED <<env, handlers, user_data, last, chosen>>

\* main() up to run_polling: build the application, add the handlers
Main ==
    /\ phase = "imported"
    /\ handlers' = RegisteredHandlers
    /\ phase' = "polling"
    /\ UNCHANGED <<env, TELEGRAM_TOKEN, exit_code, user_data, last, chosen>>

\* run_polling raises: except Exception -> sys.exit(1)
RunPollingError ==
    /\ phase = "polling"
    /\ phase' = "exited"
    /\ exit_code' = 1
    /\ UNCHANGED <<env, TELEGRAM_TOKEN, handlers, user_data, last, chosen>>

\* run_polling returns on a stop signal and main() returns
Shutdown ==
    /\ phase = "polling"
    /\ phase' = "exited"
    /\ exit_code' = 0
    /\ UNCHANGED <<env, TELEGRAM_TOKEN, handlers, user_data, last, chosen>>

\* what one delivery stores; last records the delivery: the update, the
\* handler that ran, whether the user had a record before it, what the
\* translation service did if it was invoked, whether a callback repeats
\* the update before it, the handler's effects and whether it raised;
\* chosen records the token of an acknowledged callback
Handled(upd, cb, outcome, res) ==
    /\ user_data' = res.user_data
    /\ last' = [update |-> upd, handler |-> cb,
                had_record |-> upd.user \in DOMAIN user_data,
                outcome |-> IF \E i \in 1..Len(res.effects) :
                                    res.effects[i].op = "GoogleTranslator"
                               THEN outcome
                               ELSE "none",
                repeat |-> (cb = "language_callback" /\ upd = last.update),
                effects |-> res.effects, raised |-> res.raised]
    /\ chosen' = IF /\ cb = "language_callback"
                    /\ \E i \in 1..Len(res.effects) :
                          res.effects[i].op = "answer"
                 THEN [chosen EXCEPT ![upd.user] = upd.data]
                 ELSE chosen
    /\ UNCHANGED <<env, TELEGRAM_TOKEN, phase, exit_code, handlers>>

DeliverStart ==
    \E u \in Users, text \in Texts :
        LET upd == Message(u, text) IN
        /\ phase = "polling"
        /\ Dispatch(handlers, upd) = "start"
        /\ Handled(upd, "start", "none", start(user_data, u))

DeliverHelp ==
    \E u \in Users, text \in Texts :
        LET upd == Message(u, text) IN
        /\ phase = "polling"
        /\ Dispatch(handlers, upd) = "help_command"
        /\ Handled(upd, "help_command", "none",
                   help_command(user_data, u))

DeliverText ==
    \E u \in Users, text \in Texts :
        LET upd == Message(u, text) IN
        /\ phase = "polling"
        /\ Dispatch(handlers, upd) = "handle_message"
        /\ \E outcome \in Outcomes :
              Handled(upd, "handle_message", outcome,
                      handle_message(user_data, u, text, outcome))

DeliverCallback ==
    \E u \in Users, data \in CallbackData :
        LET upd == CallbackQuery(u, data) IN
        /\ phase = "polling"
        /\ Dispatch(handlers, upd) = "language_callback"
        /\ \E net \in Transport :
              Handled(upd, "language_callback", "none",
                      language_callback(user_data, u, data, net))

\* no handler accepts the update: process_update runs nothing
DeliverUnhandled ==
    \E u \in Users :
        \E upd \in {Message(u, t) : t \in Texts}
                      \cup {CallbackQuery(u, d) : d \in CallbackData} :
            /\ phase = "polling"
            /\ Dispatch(handlers, upd) = "none"
            /\ Handled(upd, "none", "none", Result(user_data, <<>>, FALSE))

Next ==
    \/ LoadToken
    \/ Main
    \/ RunPollingError
    \/ Shutdown
    \/ DeliverStart
    \/ DeliverHelp
    \/ DeliverText
    \/ DeliverCallback
    \/ DeliverUnhandled

Spec == Init /\ [][Next]_vars

\* the statements of main() run one after the other
FairSpec == Spec /\ WF_vars(LoadToken) /\ WF_vars(Main)

TypeOK ==
    /\ phase \in {"import", "imported", "polling", "exited"}
    /\ exit_code \in {NoExit, 0, 1}
    /\ DOMAIN user_data \subseteq Users
    /\ \A u \in DOMAIN user_data : user_data[u].mode = "translate"
    /\ DOMAIN chosen = Users

\* ------------------------------------------------------------ properties
MenuLabels == {L_Tarjima, L_Sozlamalar, L_Yordam}

\* the outbound responses of a delivery: replies and message edits
Responses(l) ==
    SelectSeq(l.effects,
              LAMBDA e : e.op \in {"reply_text", "edit_message_text"})

\* the invocations of the translation service of a delivery
TranslatorCalls(l) ==
    SelectSeq(l.effects, LAMBDA e : e.op = "GoogleTranslator")

\* the effects on the collaborators, without the accesses to user_data
Collaborators(l) ==
    SelectSeq(l.effects,
              LAMBDA e : e.op \notin {"user_data.create", "user_data.get",
                                      "user_data.set"})

\* the acknowledgements of a delivery, accepted by the transport or not
Acks(l) ==
    SelectSeq(l.effects, LAMBDA e : e.op \in {"answer", "answer.raise"})
Acked(l) == \E i \in 1..Len(l.effects) : l.effects[i].op = "answer"
TransportFailed(l) ==
    \E i \in 1..Len(l.effects) :
        l.effects[i].op \in {"answer.raise", "edit_message_text.raise"}

\* a handler ran and returned (no transport error ended it)
RanHandler == last.handler # "none" /\ ~last.raised
FirstTouch == RanHandler /\ ~last.had_record
HasRecord(u) == u \in DOMAIN user_data

\* C1 (as stated): whichever handler runs first for a user without a record
\* (/start, /help, a text message, a language callback), a record of that
\* user with target_language "en" exists when the handler returns.
C1_FirstEventCreatesEn ==
    FirstTouch =>
        /\ HasRecord(last.update.user)
        /\ user_data[last.update.user].target_language = c_en

\* C1 (amended): for a user without a record, /start and a text message
\* leave a record with target_language "en"; a language callback leaves a
\* record whose target_language is the code of its token; /help leaves the
\* user without a record.
C1_FirstEventByHandler ==
    FirstTouch =>
        LET u == last.update.user IN
        /\ last.handler \in {"start", "handle_message"} =>
              /\ HasRecord(u)
              /\ user_data[u].target_language = c_en
              /\ user_data[u].mode = "translate"
        /\ last.handler = "language_callback" =>
              /\ HasRecord(u)
              /\ user_data[u].target_language = split(last.update.data, "_")[2]
        /\ last.handler = "help_command" => ~HasRecord(u)

C1_Witness ==
    /\ FirstTouch
    /\ last.handler = "start"
    /\ HasRecord(last.update.user)
    /\ user_data[last.update.user].target_language = c_en

\* C2: after the language callback handler has handled the token
\* "lang_" + c for a catalog code c, the user's target_language is c; from
\* every reachable mapping the handler does so for each of the six codes.
C2_CatalogCodeStored ==
    \A c \in {c_uz, c_en, c_ru, c_tr, c_ar, c_es} :
        /\ (last.handler = "language_callback"
                /\ ~last.raised
                /\ last.update.data = lang_prefix \o c)
            => /\ HasRecord(last.update.user)
               /\ user_data[last.update.user].target_language = c
        /\ \A u \in Users :
              LET token == <<"l", "a", "n", "g", "_">> \o c
                  res == language_callback(user_data, u, token, "ok")
              IN  ~res.raised /\ res.user_data[u].target_language = c

C2_Witness ==
    /\ last.handler = "language_callback"
    /\ ~last.raised
    /\ last.had_record
    /\ last.update.data = lang_prefix \o c_uz
    /\ user_data[last.update.user].target_language = c_uz

\* C3: handling a text message that is not a menu label invokes the
\* translation service exactly once, with source "auto", the message text
\* and the target the sender had stored when the message arrived ("en"
\* without a record).
C3_TranslateOnceWithStoredTarget ==
    [][(last' # last
            /\ last'.handler = "handle_message"
            /\ last'.update.text \notin MenuLabels)
        => LET calls == TranslatorCalls(last')
               u == last'.update.user
           IN  /\ Len(calls) = 1
               /\ calls[1].source = "auto"
               /\ calls[1].text = last'.update.text
               /\ calls[1].target = IF u \in DOMAIN user_data
                                    THEN user_data[u].target_language
                                    ELSE c_en]_vars

C3_Witness ==
    /\ last.handler = "handle_message"
    /\ last.update.text = t_Hello
    /\ last.had_record
    /\ Len(TranslatorCalls(last)) = 1
    /\ TranslatorCalls(last)[1].target = c_ru

\* C4: when the translation service raises while a text message is handled,
\* the only response is the fixed failure message, nothing is raised out of
\* the handler, the router keeps polling, and the mapping is what the lazy
\* create left (no other record is touched).
C4_TranslationFailureContained ==
    [][(last' # last
            /\ last'.handler = "handle_message"
            /\ last'.outcome = "error"
            /\ Len(TranslatorCalls(last')) > 0)
        => /\ Responses(last') = <<Reply(failure_text, NoMarkup)>>
           /\ ~last'.raised
           /\ phase' = "polling"
           /\ DOMAIN user_data' = DOMAIN user_data \cup {last'.update.user}
           /\ \A v \in DOMAIN user_data : user_data'[v] = user_data[v]]_vars

C4_Witness ==
    /\ last.handler = "handle_message"
    /\ last.outcome = "error"
    /\ Len(TranslatorCalls(last)) = 1
    /\ Responses(last) = <<Reply(failure_text, NoMarkup)>>
    /\ ~last.raised
    /\ phase = "polling"

\* C5: the target_language of an existing record changes only in a step of
\* the language callback handler for that user.
C5_OnlyCallbackChangesTarget ==
    [][\A u \in DOMAIN user_data :
          /\ u \in DOMAIN user_data'
          /\ user_data'[u].target_language # user_data[u].target_language
                => /\ last'.handler = "language_callback"
                   /\ last'.update.user = u]_vars

C5_Witness ==
    /\ last.handler \in {"start", "handle_message"}
    /\ last.had_record
    /\ user_data[last.update.user].target_language = c_ru

\* C6: every text message (command or not) and every language callback
\* delivered to the router produces exactly one outbound response.
C6_ExactlyOneResponse ==
    (\/ last.update.kind = "message"
     \/ /\ last.update.kind = "callback_query"
        /\ StartsWith(last.update.data, lang_prefix)
        /\ ~last.raised)
    => Len(Responses(last)) = 1

\* C7: handling the same callback token of the same user twice in a row
\* leaves the preference mapping as the first handling left it.
C7_CallbackIdempotent ==
    [][(/\ last.handler = "language_callback"
        /\ ~last.raised
        /\ last'.handler = "language_callback"
        /\ last'.update = last.update
        /\ last'.repeat)
        => user_data' = user_data]_vars

C7_Witness ==
    /\ last.handler = "language_callback"
    /\ ~last.raised
    /\ last.repeat
    /\ last.update.data = lang_prefix \o c_ru
    /\ user_data[last.update.user].target_language = c_ru

\* C8: a callback token that starts with "lang_" is handled by the language
\* callback handler, which stores the second "_"-segment of the token as
\* target_language and raises only when the transport rejects one of its
\* two calls; when that code is not in the catalog the confirmation names
\* the language "Unknown".
C8_UnknownCodeStored ==
    (last.update.kind = "callback_query"
        /\ StartsWith(last.update.data, lang_prefix))
    => LET u == last.update.user
           code == split(last.update.data, "_")[2]
       IN  /\ last.handler = "language_callback"
           /\ last.raised => TransportFailed(last)
           /\ last.update.data = d_empty_code => code = <<>>
           /\ last.update.data = d_zh_CN => code = <<"z", "h">>
           /\ Acked(last) =>
                 /\ HasRecord(u)
                 /\ user_data[u].target_language = code
           /\ (~last.raised
                 /\ code \notin {c_uz, c_en, c_ru, c_tr, c_ar, c_es})
                 => Responses(last) = <<Edit(Confirmation("Unknown"))>>

C8_Witness ==
    /\ last.handler = "language_callback"
    /\ last.update.data = d_zh_CN
    /\ user_data[last.update.user].target_language = <<"z", "h">>
    /\ Responses(last) = <<Edit(Confirmation("Unknown"))>>

\* C9: a text equal to a menu label is answered without the translation
\* service: the translate label by the short prompt, the settings label by
\* the language picker, the help label by the help text; every other text
\* the text handler gets is translated.
C9_MenuLabelsNotTranslated ==
    last.handler = "handle_message" =>
        LET text == last.update.text IN
        /\ text = L_Tarjima
              => Collaborators(last) = <<Reply(prompt_text, NoMarkup)>>
        /\ text = L_Sozlamalar
              => Collaborators(last)
                    = <<Reply(settings_text, get_language_keyboard)>>
        /\ text = L_Yordam
              => Collaborators(last) = <<Reply(help_text, NoMarkup)>>
        /\ text \in MenuLabels <=> Len(TranslatorCalls(last)) = 0
        /\ text \in {t_tarjima_lower, t_Yordam_space}
              => Len(TranslatorCalls(last)) = 1

C9_Witness ==
    /\ last.handler = "handle_message"
    /\ last.update.text = L_Tarjima
    /\ Collaborators(last) = <<Reply(prompt_text, NoMarkup)>>

\* C10: with TELEGRAM_BOT_TOKEN absent or empty the process exits with
\* status 1 before any handler is registered and no update is ever handled;
\* with a non-empty token the startup registers the four handlers.
TokenMissing == TOKEN_VAR \notin DOMAIN env \/ env[TOKEN_VAR] = ""

C10_MissingTokenIsFatal ==
    /\ [](TokenMissing =>
            /\ phase \in {"import", "exited"}
            /\ handlers = <<>>
            /\ last.update.kind = "none"
            /\ phase = "exited" => exit_code = 1)
    /\ [](phase \in {"imported", "polling"} =>
            TELEGRAM_TOKEN # None /\ TELEGRAM_TOKEN # "")
    /\ (TokenMissing ~> (phase = "exited" /\ exit_code = 1))
    /\ (~TokenMissing ~> Len(handlers) = 4)

C10_Witness ==
    /\ TOKEN_VAR \in DOMAIN env
    /\ env[TOKEN_VAR] = ""
    /\ phase = "exited"
    /\ exit_code = 1
    /\ handlers = <<>>

\* C11: the keyboard of a settings request holds every catalog entry once,
\* in catalog order, two buttons per row (one in the last row of a catalog
\* of odd size), each button with the entry's label and the token "lang_" +
\* code; for the catalog of six entries that is three rows of two.
KeyboardLaidOut(langs, rows) ==
    /\ Len(rows) = (Len(langs) + 1) \div 2
    /\ \A r \in 1..Len(rows) :
          Len(rows[r]) = IF 2 * r <= Len(langs) THEN 2 ELSE 1
    /\ \A i \in 1..Len(langs) :
          LET b == rows[(i + 1) \div 2][((i - 1) % 2) + 1] IN
          /\ b.text = langs[i].label
          /\ b.callback_data = <<"l", "a", "n", "g", "_">> \o langs[i].code

SettingsRequested ==
    last.handler = "handle_message" /\ last.update.text = L_Sozlamalar

C11_LanguageKeyboardLayout ==
    /\ \A n \in 0..Len(LANGUAGES) :
          KeyboardLaidOut(SubSeq(LANGUAGES, 1, n),
                          LanguageRows(SubSeq(LANGUAGES, 1, n)))
    /\ SettingsRequested =>
          /\ Len(Responses(last)) = 1
          /\ Responses(last)[1].text = settings_text
          /\ LET kb == Responses(last)[1].reply_markup IN
             /\ kb.kind = "InlineKeyboardMarkup"
             /\ KeyboardLaidOut(LANGUAGES, kb.rows)
             /\ Len(kb.rows) = 3
             /\ \A r \in 1..3 : Len(kb.rows[r]) = 2
             /\ kb.rows[2][1] =
                   [text |-> "[ru] Russkiy",
                    callback_data |-> <<"l", "a", "n", "g", "_", "r", "u">>]

C11_Witness ==
    /\ SettingsRequested
    /\ Len(Responses(last)) = 1
    /\ Len(Responses(last)[1].reply_markup.rows) = 3
    /\ Responses(last)[1].reply_markup.rows[3][2].callback_data
          = lang_prefix \o c_es

\* the accesses of a delivery to the record of a user: reads and writes
RecordAccesses(l) ==
    SelectSeq(l.effects,
              LAMBDA e : e.op \in {"user_data.get", "user_data.set"})

\* C12 (as stated): the record of the user exists at every access to it and
\* every handler performs the lazy create, so the user of any handler that
\* returned has a record.
C12_EveryHandlerCreates ==
    /\ \A i \in 1..Len(RecordAccesses(last)) :
          RecordAccesses(last)[i].present
    /\ RanHandler => HasRecord(last.update.user)

\* C12 (amended): the record of the user exists at every read or write of
\* it (the lookup of the translation, the assignment of the callback),
\* because start, handle_message and language_callback run the lazy create
\* before any other access; help_command accesses nothing and creates no
\* record.
C12_AccessAfterLazyCreate ==
    LET u == last.update.user
        acc == RecordAccesses(last)
    IN  /\ \A i \in 1..Len(acc) : acc[i].present /\ acc[i].user = u
        /\ (last.handler \in {"start", "handle_message"}
                \/ (last.handler = "language_callback" /\ Acked(last)))
            => /\ HasRecord(u)
               /\ ~last.had_record =>
                     \E i \in 1..Len(last.effects) :
                        /\ last.effects[i].op = "user_data.create"
                        /\ last.effects[i].user = u
                        /\ \A j \in 1..(i - 1) :
                              last.effects[j].op \notin
                                  {"user_data.get", "user_data.set"}
        /\ last.handler = "help_command"
            => /\ Collaborators(last) = last.effects
               /\ ~last.had_record => ~HasRecord(u)

C12_Witness ==
    /\ last.handler = "handle_message"
    /\ ~last.had_record
    /\ Len(RecordAccesses(last)) = 1
    /\ RecordAccesses(last)[1].op = "user_data.get"
    /\ RecordAccesses(last)[1].present

\* C13: every run of the language callback handler acknowledges the callback
\* exactly once, as its first effect: before the write of the preference
\* and before the edit, whatever the code and whether or not the edit then
\* fails; when the acknowledgement fails nothing else happens and the
\* mapping is unchanged.
C13_AcknowledgedFirst ==
    [][last'.handler = "language_callback"
        => /\ Len(Acks(last')) = 1
           /\ last'.effects[1] = Acks(last')[1]
           /\ \A i \in 1..Len(last'.effects) :
                 last'.effects[i].op \in
                     {"user_data.create", "user_data.set",
                      "edit_message_text", "edit_message_text.raise"}
                 => i > 1 /\ Acked(last')
           /\ ~Acked(last')
                 => /\ user_data' = user_data
                    /\ Len(last'.effects) = 1
                    /\ last'.raised
           /\ Acked(last')
                 => /\ Len(last'.effects) >= 3
                    /\ last'.effects[Len(last'.effects) - 1].op
                          = "user_data.set"
                    /\ last'.effects[Len(last'.effects)].op
                          \in {"edit_message_text",
                               "edit_message_text.raise"}]_vars

C13_Witness ==
    /\ last.handler = "language_callback"
    /\ last.update.data = d_zh_CN
    /\ Acked(last)
    /\ last.raised
    /\ last.effects[Len(last.effects)].op = "edit_message_text.raise"
    /\ user_data[last.update.user].target_language = <<"z", "h">>

\* C14: the target of the translation of a free text is the code of the
\* sender's latest acknowledged language callback, "en" when there is none;
\* a successful translation is answered by the header and the translated
\* text (after "lang_ru", "Hello" is translated to "ru").
C14_TargetIsLatestChoice ==
    (last.handler = "handle_message" /\ last.update.text \notin MenuLabels)
    => LET u == last.update.user
           text == last.update.text
           calls == TranslatorCalls(last)
           want == IF chosen[u] = NoToken
                   THEN <<"e", "n">>
                   ELSE split(chosen[u], "_")[2]
       IN  /\ Len(calls) = 1
           /\ calls[1].target = want
           /\ calls[1].text = text
           /\ last.outcome = "ok" =>
                 Responses(last) =
                     <<Reply(<<"Tarjima:", <<"translated", want, text>>>>,
                             NoMarkup)>>
           /\ (chosen[u] = <<"l", "a", "n", "g", "_", "r", "u">>
                 /\ text = t_Hello)
                 => calls[1].target = <<"r", "u">>

C14_Witness ==
    /\ last.handler = "handle_message"
    /\ last.update.text = t_Hello
    /\ last.outcome = "ok"
    /\ chosen[last.update.user] = lang_prefix \o c_ru
    /\ TranslatorCalls(last)[1].target = c_ru
    /\ Responses(last) =
          <<Reply(TranslationReply(Translated(c_ru, t_Hello)), NoMarkup)>>

\* C15: a step leaves the record of every user other than the one whose
\* update it handles as it was: not created, not changed, not removed.
C15_OtherUsersUntouched ==
    [][\A v \in Users :
          v # last'.update.user
          => /\ v \in DOMAIN user_data' <=> v \in DOMAIN user_data
             /\ v \in DOMAIN user_data => user_data'[v] = user_data[v]
             /\ chosen'[v] = chosen[v]]_vars

C15_Witness ==
    /\ last.handler = "language_callback"
    /\ ~last.raised
    /\ \E v \in DOMAIN user_data :
          /\ v # last.update.user
          /\ user_data[v].target_language = c_uz
          /\ user_data[last.update.user].target_language = c_ru

\* C16: a record, once created, stays in the mapping, and every record has
\* exactly a target_language and mode = "translate".
C16_RecordsNeverDestroyed ==
    /\ [](\A u \in DOMAIN user_data :
            /\ DOMAIN user_data[u] = {"target_language", "mode"}
            /\ user_data[u].mode = "translate")
    /\ [][DOMAIN user_data \subseteq DOMAIN user_data']_vars

C16_Witness ==
    /\ DOMAIN user_data = Users
    /\ last.handler = "start"
    /\ last.had_record
    /\ user_data[last.update.user].target_language = c_uz

====
